---- MODULE Spec2Model ----
(***************************************************************************)
(* Knowledge-graph viewer: the visibility/expansion derivation of App.tsx  *)
(* (the useMemo block and the event handlers) and the CSV-to-graph         *)
(* ingestion of utils/csvParser.                                           *)
(*                                                                         *)
(* Text is modelled by TLA+ strings; a character is a string of length 1.  *)
(* Node records keep the fields the logic reads or copies (id, name,       *)
(* group, desc, evidence, analysis); val, color and the layout coordinates *)
(* are rendering weights that no decision of the program reads.            *)
(* Node ids are assumed not to be names of Object.prototype members.       *)
(***************************************************************************)
EXTENDS Integers, Sequences, FiniteSets, TLC

(***************************************************************************)
(* Text primitives (String.prototype.toLowerCase / includes / trim).       *)
(***************************************************************************)
UpperCase == <<"A","B","C","D","E","F","G","H","I","J","K","L","M",
               "N","O","P","Q","R","S","T","U","V","W","X","Y","Z">>
LowerCase == <<"a","b","c","d","e","f","g","h","i","j","k","l","m",
               "n","o","p","q","r","s","t","u","v","w","x","y","z">>

\* the lower-case letter of every upper-case letter
CaseMap ==
  [c \in {UpperCase[i] : i \in DOMAIN UpperCase} |->
     LowerCase[CHOOSE i \in DOMAIN UpperCase : UpperCase[i] = c]]

toLowerCaseChar(c) == IF c \in DOMAIN CaseMap THEN CaseMap[c] ELSE c

\* every character replaced by its lower-case form
RECURSIVE toLowerCase(_)
toLowerCase(s) ==
  IF Len(s) = 0 THEN ""
  ELSE IF Len(s) = 1 THEN toLowerCaseChar(s)
  ELSE toLowerCase(SubSeq(s, 1, Len(s) \div 2))
         \o toLowerCase(SubSeq(s, Len(s) \div 2 + 1, Len(s)))

includes(s, q) ==
  \E i \in 1..(Len(s) - Len(q) + 1) : SubSeq(s, i, i + Len(q) - 1) = q

WhiteSpace == {" ", "\t", "\n", "\r"}

RECURSIVE trimStart(_)
trimStart(s) ==
  IF s # "" /\ Head(s) \in WhiteSpace THEN trimStart(Tail(s)) ELSE s

RECURSIVE trimEnd(_)
trimEnd(s) ==
  IF s # "" /\ SubSeq(s, Len(s), Len(s)) \in WhiteSpace
    THEN trimEnd(SubSeq(s, 1, Len(s) - 1))
    ELSE s

trim(s) == trimEnd(trimStart(s))

(***************************************************************************)
(* Graph model.  A link endpoint is either a bare node id or, once the     *)
(* force-graph layout has touched the link, a reference to a node object.  *)
(***************************************************************************)
CenterId == "AGI_CORE"

BareId(id) == [kind |-> "string", value |-> id]
NodeRef(id) == [kind |-> "object", id |-> id]

Link(s, t) == [source |-> BareId(s), target |-> BareId(t)]

\* variant: a node reference is used as a key without being resolved
EndpointId_unresolved(e) ==
  IF e.kind = "object" THEN "[object Object]" ELSE e.value

\* typeof e === 'object' ? e.id : e
EndpointId(e) == IF e.kind = "object" THEN e.id ELSE e.value

Range(seq) == {seq[i] : i \in DOMAIN seq}

DEFAULT_GRAPH_DATA ==
  [nodes |-> <<
     [id |-> "AGI_CORE", name |-> "AGI Singularity", group |-> "center",
      desc |-> "The theoretical moment when AI surpasses human intelligence.",
      analysis |-> "Central node of the system."],
     [id |-> "Neural_Nets", name |-> "Neural Networks", group |-> "planet",
      desc |-> "Computing systems inspired by biological neural networks."],
     [id |-> "Reasoning", name |-> "Reasoning", group |-> "planet",
      desc |-> "The ability to make inferences from data."],
     [id |-> "Creativity", name |-> "Creativity", group |-> "planet",
      desc |-> "Generative capabilities in art and text."],
     [id |-> "Ethics", name |-> "AI Ethics", group |-> "planet",
      desc |-> "Moral principles governing AI behavior."],
     [id |-> "Robotics", name |-> "Embodied AI", group |-> "planet",
      desc |-> "AI operating in the physical world."],
     [id |-> "Transformers", name |-> "Transformers", group |-> "satellite",
      desc |-> "Attention-based architecture."],
     [id |-> "Backprop", name |-> "Backpropagation", group |-> "satellite",
      desc |-> "Gradient descent optimization."],
     [id |-> "CoT", name |-> "Chain of Thought", group |-> "satellite",
      desc |-> "Step-by-step reasoning technique."],
     [id |-> "Symbolic", name |-> "Neuro-Symbolic", group |-> "satellite",
      desc |-> "Combining logic with neural nets."],
     [id |-> "Diffusion", name |-> "Diffusion Models", group |-> "satellite",
      desc |-> "Image generation technique."],
     [id |-> "LLMs", name |-> "Large Language Models", group |-> "satellite",
      desc |-> "Text generation foundations."],
     [id |-> "Alignment", name |-> "Alignment", group |-> "satellite",
      desc |-> "Ensuring AI goals match human values."],
     [id |-> "Bias", name |-> "Bias Mitigation", group |-> "satellite",
      desc |-> "Reducing unfair prejudice in models."],
     [id |-> "Sim2Real", name |-> "Sim2Real", group |-> "satellite",
      desc |-> "Transferring simulation skills to reality."],
     [id |-> "Sensors", name |-> "Multimodal Sensors", group |-> "satellite",
      desc |-> "Vision, touch, and audio integration."] >>,
   links |-> <<
     Link("AGI_CORE", "Neural_Nets"),
     Link("AGI_CORE", "Reasoning"),
     Link("AGI_CORE", "Creativity"),
     Link("AGI_CORE", "Ethics"),
     Link("AGI_CORE", "Robotics"),
     Link("Neural_Nets", "Transformers"),
     Link("Neural_Nets", "Backprop"),
     Link("Reasoning", "CoT"),
     Link("Reasoning", "Symbolic"),
     Link("Creativity", "Diffusion"),
     Link("Creativity", "LLMs"),
     Link("Ethics", "Alignment"),
     Link("Ethics", "Bias"),
     Link("Robotics", "Sim2Real"),
     Link("Robotics", "Sensors") >>]

(***************************************************************************)
(* CSV ingestion (parseCsvToGraph).  A parsed row (an element of Papa's    *)
(* results.data under header: true) is the sequence of its fields in       *)
(* column order; a field value is a text, or the array Papa stores under   *)
(* __parsed_extra.  The four non-ASCII column aliases of the source are    *)
(* written here by their code points.                                      *)
(***************************************************************************)
KeyZhName     == "U+4E3B U+5206 U+652F"
KeyZhDesc     == "U+5B50 U+8282 U+70B9 / U+7EC6 U+8282"
KeyZhEvidence == "U+5173 U+952E U+5F15 U+7528 / U+8BC1 U+636E"
KeyZhAnalysis == "U+5206 U+6790 / U+6D1E U+89C1"

Undefined == [type |-> "undefined"]
Text(s) == [type |-> "string", text |-> s]
ExtraArray == [type |-> "array"]
Field(k, v) == [key |-> k, value |-> v]

\* JavaScript truthiness of a field value
Truthy(v) ==
  CASE v.type = "undefined" -> FALSE
    [] v.type = "string" -> v.text # ""
    [] OTHER -> TRUE

\* a || b
OrElse(a, b) == IF Truthy(a) THEN a ELSE b

\* variant: column keys are matched without regard to case
Get_anyCase(row, k) ==
  IF \E i \in DOMAIN row : toLowerCase(row[i].key) = toLowerCase(k)
    THEN row[CHOOSE i \in DOMAIN row :
               toLowerCase(row[i].key) = toLowerCase(k)].value
    ELSE Undefined

\* row[k]
Get(row, k) ==
  IF \E i \in DOMAIN row : row[i].key = k
    THEN row[CHOOSE i \in DOMAIN row : row[i].key = k].value
    ELSE Undefined

\* Object.values(row)[0]
FirstValue(row) == IF row = <<>> THEN Undefined ELSE row[1].value

ResolveName(row) ==
  OrElse(Get(row, KeyZhName),
  OrElse(Get(row, "Name"),
  OrElse(Get(row, "Node"),
  OrElse(Get(row, "Title"), FirstValue(row)))))

ResolveDesc(row) ==
  OrElse(Get(row, KeyZhDesc),
  OrElse(Get(row, "Description"),
  OrElse(Get(row, "Detail"), Text(""))))

ResolveEvidence(row) ==
  OrElse(Get(row, KeyZhEvidence),
  OrElse(Get(row, "Evidence"),
  OrElse(Get(row, "Reference"), Text(""))))

ResolveAnalysis(row) ==
  OrElse(Get(row, KeyZhAnalysis),
  OrElse(Get(row, "Analysis"),
  OrElse(Get(row, "Insight"), Text(""))))

CsvCenterNode ==
  [id |-> CenterId, name |-> "AGI Future", group |-> "center",
   desc |-> "The central core of Artificial General Intelligence.",
   analysis |-> "System Root"]

\* the node and the link pushed for an accepted row
PlanetNode(cleanId, row) ==
  [id |-> cleanId, name |-> cleanId, group |-> "planet",
   desc |-> ResolveDesc(row).text,
   evidence |-> ResolveEvidence(row).text,
   analysis |-> ResolveAnalysis(row).text]

\* variant: a name already seen is not skipped
IngestRow_noDedup(acc, row) ==
  LET name == ResolveName(row) IN
  IF ~Truthy(name) \/ name.type # "string" THEN acc
  ELSE
    LET cleanId == trim(name.text) IN
    IF cleanId = "" THEN acc
    ELSE [nodes |-> Append(acc.nodes, PlanetNode(cleanId, row)),
          links |-> Append(acc.links, Link(CenterId, cleanId)),
          uniqueIds |-> acc.uniqueIds \cup {cleanId}]

\* variant: a name that is blank after trimming is not skipped
IngestRow_blankNode(acc, row) ==
  LET name == ResolveName(row) IN
  IF ~Truthy(name) \/ name.type # "string" THEN acc
  ELSE
    LET cleanId == trim(name.text) IN
    IF cleanId \in acc.uniqueIds THEN acc
    ELSE [nodes |-> Append(acc.nodes, PlanetNode(cleanId, row)),
          links |-> Append(acc.links, Link(CenterId, cleanId)),
          uniqueIds |-> acc.uniqueIds \cup {cleanId}]

\* variant: each row is linked to the row accepted before it (a chain)
IngestRow_chain(acc, row) ==
  LET name == ResolveName(row) IN
  IF ~Truthy(name) \/ name.type # "string" THEN acc
  ELSE
    LET cleanId == trim(name.text) IN
    IF cleanId = "" \/ cleanId \in acc.uniqueIds THEN acc
    ELSE [nodes |-> Append(acc.nodes, PlanetNode(cleanId, row)),
          links |-> Append(acc.links,
                      Link(acc.nodes[Len(acc.nodes)].id, cleanId)),
          uniqueIds |-> acc.uniqueIds \cup {cleanId}]

\* the body of results.data.forEach: acc = [nodes, links, uniqueIds]
IngestRow(acc, row) ==
  LET name == ResolveName(row) IN
  IF ~Truthy(name) \/ name.type # "string" THEN acc
  ELSE
    LET cleanId == trim(name.text) IN
    IF cleanId = "" \/ cleanId \in acc.uniqueIds THEN acc
    ELSE
      [nodes |-> Append(acc.nodes, PlanetNode(cleanId, row)),
       links |-> Append(acc.links, Link(CenterId, cleanId)),
       uniqueIds |-> acc.uniqueIds \cup {cleanId}]

RECURSIVE IngestRows(_, _)
IngestRows(acc, rows) ==
  IF rows = <<>> THEN acc
  ELSE IngestRows(IngestRow(acc, Head(rows)), Tail(rows))

\* variant: the dedup set is not seeded with the center id
parseCsvToGraph_unseeded(rows) ==
  LET acc == IngestRows([nodes |-> <<CsvCenterNode>>, links |-> <<>>,
                         uniqueIds |-> {}], rows)
  IN [nodes |-> acc.nodes, links |-> acc.links]

\* the complete callback: the graph handed to resolve
parseCsvToGraph(rows) ==
  LET acc == IngestRows([nodes |-> <<CsvCenterNode>>, links |-> <<>>,
                         uniqueIds |-> {CenterId}], rows)
  IN [nodes |-> acc.nodes, links |-> acc.links]

(***************************************************************************)
(* Visibility engine: the useMemo block of App.                            *)
(***************************************************************************)
Groups == {"center", "planet", "satellite"}

\* variant: search mode without the category filter
filteredNodes_unfiltered(md, ag) == md.nodes

\* masterData.nodes.filter(n => activeGroups.has(n.group))
filteredNodes(md, ag) == SelectSeq(md.nodes, LAMBDA n : n.group \in ag)

filteredNodeIds(md, ag) == {n.id : n \in Range(filteredNodes(md, ag))}

\* neighbors[a].push(b), after "if (!neighbors[a]) neighbors[a] = []"
PushNeighbor(nb, a, b) ==
  [x \in DOMAIN nb \cup {a} |->
     IF x = a THEN (IF a \in DOMAIN nb THEN nb[a] ELSE <<>>) \o <<b>>
              ELSE nb[x]]

\* variant: the adjacency list records each link in one direction only
IndexLink_directed(nb, link) ==
  PushNeighbor(nb, EndpointId(link.source), EndpointId(link.target))

\* one iteration of the forEach that builds the adjacency list
IndexLink(nb, link) ==
  LET s == EndpointId(link.source)
      t == EndpointId(link.target)
  IN PushNeighbor(PushNeighbor(nb, s, t), t, s)

RECURSIVE IndexLinks(_, _)
IndexLinks(nb, links) ==
  IF links = <<>> THEN nb
  ELSE IndexLinks(IndexLink(nb, Head(links)), Tail(links))

neighbors(md) == IndexLinks(<<>>, md.links)

\* neighbors[id] || []
myNeighbors(nb, id) == IF id \in DOMAIN nb THEN nb[id] ELSE <<>>

\* the filter predicate of "matches"
Matches(n, lowerQuery) ==
  \/ includes(toLowerCase(n.name), lowerQuery)
  \/ ("desc" \in DOMAIN n /\ includes(toLowerCase(n.desc), lowerQuery))

matchIds(md, q) ==
  {n.id : n \in {m \in Range(md.nodes) : Matches(m, toLowerCase(q))}}

\* variant: one endpoint in the id set is enough
LinkWithin_either(link, ids) ==
  EndpointId(link.source) \in ids \/ EndpointId(link.target) \in ids

\* both endpoints of the link are in the id set
LinkWithin(link, ids) ==
  EndpointId(link.source) \in ids /\ EndpointId(link.target) \in ids

\* search mode: finalNodes and finalLinks
searchVisible(md, ag) ==
  LET ids == filteredNodeIds(md, ag)
  IN [nodes |-> filteredNodes(md, ag),
      links |-> SelectSeq(md.links, LAMBDA l : LinkWithin(l, ids))]

\* variant: every tier is gated, a node shows when it or a neighbour of it
\* is expanded
ShowsNode_everyTierGated(node, nb, ag, exp) ==
  /\ node.group \in ag
  /\ node.group \in {"center", "planet", "satellite"}
  /\ \/ node.id \in exp
     \/ \E i \in DOMAIN myNeighbors(nb, node.id) :
           myNeighbors(nb, node.id)[i] \in exp

\* variant: a satellite needs every one of its neighbours expanded
ShowsNode_everyNeighbor(node, nb, ag, exp) ==
  /\ node.group \in ag
  /\ \/ node.group \in {"center", "planet"}
     \/ /\ node.group = "satellite"
        /\ myNeighbors(nb, node.id) # <<>>
        /\ \A i \in DOMAIN myNeighbors(nb, node.id) :
              myNeighbors(nb, node.id)[i] \in exp

\* variant: satellites are not gated by the Expansion Set
ShowsNode_ungated(node, nb, ag, exp) ==
  node.group \in ag /\ node.group \in {"center", "planet", "satellite"}

\* variant: a satellite that is itself in the Expansion Set is folded away
ShowsNode_selfFolds(node, nb, ag, exp) ==
  /\ node.group \in ag
  /\ \/ node.group \in {"center", "planet"}
     \/ /\ node.group = "satellite"
        /\ node.id \notin exp
        /\ \E i \in DOMAIN myNeighbors(nb, node.id) :
              myNeighbors(nb, node.id)[i] \in exp

\* the body of masterData.nodes.forEach in explore mode: is node.id added?
ShowsNode(node, nb, ag, exp) ==
  /\ node.group \in ag
  /\ CASE node.group = "center" -> TRUE
       [] node.group = "planet" -> TRUE
       [] node.group = "satellite" ->
            \E i \in DOMAIN myNeighbors(nb, node.id) :
               myNeighbors(nb, node.id)[i] \in exp
       [] OTHER -> FALSE

\* variant: nothing is shown unless the graph has the center node
nodesToShow_fromCenter(md, ag, exp) ==
  LET nb == neighbors(md)
  IN IF \E m \in Range(md.nodes) : m.id = CenterId
       THEN {n.id : n \in {m \in Range(md.nodes) : ShowsNode(m, nb, ag, exp)}}
       ELSE {}

nodesToShow(md, ag, exp) ==
  LET nb == neighbors(md)
  IN {n.id : n \in {m \in Range(md.nodes) : ShowsNode(m, nb, ag, exp)}}

\* explore mode: finalNodes and finalLinks
exploreVisible(md, ag, exp) ==
  LET show == nodesToShow(md, ag, exp)
  IN [nodes |-> SelectSeq(md.nodes, LAMBDA n : n.id \in show),
      links |-> SelectSeq(md.links, LAMBDA l : LinkWithin(l, show))]

\* variant: searching keeps the expansion gating of explore mode
visibleDataOf_gated(md, ag, exp, q) == exploreVisible(md, ag, exp)

\* useMemo(...).visibleData; isSearching = searchQuery.length > 0
visibleDataOf(md, ag, exp, q) ==
  IF Len(q) > 0 THEN searchVisible(md, ag) ELSE exploreVisible(md, ag, exp)

\* variant: the matches are returned in explore mode too
highlightedNodeIdsOf_anyMode(md, ag, exp, q) == matchIds(md, q)

\* useMemo(...).highlightedNodeIds
highlightedNodeIdsOf(md, ag, exp, q) ==
  IF Len(q) > 0 THEN matchIds(md, q) ELSE {}

\* the value returned by the useMemo callback
useMemo(md, ag, exp, q) ==
  [visibleData |-> visibleDataOf(md, ag, exp, q),
   highlightedNodeIds |-> highlightedNodeIdsOf(md, ag, exp, q)]

(***************************************************************************)
(* Application state: the useState cells of App that the logic reads       *)
(* (masterData, searchQuery, activeGroups, expandedNodes), the imports in  *)
(* flight, and the last event handled.  The presentation cells             *)
(* selectedNode, isPaused, loading and showFilters are read by no handler  *)
(* condition and by no part of useMemo, and are left out.  A render is     *)
(* synchronous, so visibleData and highlightedNodeIds are functions of the *)
(* state.  lastEvent names the last event handled when it is a click, a    *)
(* reset or the completion of an import; any other event is "other".  An   *)
(* import in flight is stale once an import started after it has installed *)
(* its graph.                                                              *)
(***************************************************************************)
VARIABLES masterData, searchQuery, activeGroups, expandedNodes, pending,
          lastEvent

vars == <<masterData, searchQuery, activeGroups, expandedNodes, pending,
          lastEvent>>

visibleData ==
  visibleDataOf(masterData, activeGroups, expandedNodes, searchQuery)

highlightedNodeIds ==
  highlightedNodeIdsOf(masterData, activeGroups, expandedNodes, searchQuery)

MaxExpanded == 2
MaxPending == 2

\* CSV files the user may pick, as Papa hands their rows to the callback
Files == {"scenarioA.csv", "topics.csv"}

FileRows(f) ==
  IF f = "scenarioA.csv"
    THEN << <<Field("Name", Text("Foo")), Field("Description", Text("Bar"))>>,
            <<Field("Name", Text(" Foo ")), Field("Description", Text("Baz"))>>,
            <<Field("Name", Text("  ")), Field("Description", Text("Qux"))>>,
            <<Field("Name", Text("AGI_CORE")), Field("Description", Text("Again"))>> >>
    ELSE << <<Field(KeyZhName, Text("Vision")), Field(KeyZhDesc, Text("Seeing"))>>,
            <<Field("Topic", Text("Audio")), Field("Detail", Text("Hearing"))>> >>

\* texts typed into the search box
Queries == {"", "AI"}

\* variant: expanding a node collapses every other node ("accordion")
ToggleExpanded_accordion(prev, id) ==
  IF id \in prev THEN prev \ {id} ELSE {id}

\* the updater passed to setExpandedNodes by handleNodeClick
ToggleExpanded(prev, id) ==
  IF id \in prev THEN prev \ {id} ELSE prev \cup {id}

\* variant: the click toggles the node while a search is active too
ClickExpansion_always(prev, node, q) == ToggleExpanded(prev, node.id)

\* the Expansion Set after a click on node, given the query at the click
ClickExpansion(prev, node, q) ==
  IF q = "" THEN ToggleExpanded(prev, node.id) ELSE prev

handleNodeClick(node) ==
  /\ expandedNodes' = ClickExpansion(expandedNodes, node, searchQuery)
  /\ Cardinality(expandedNodes') <= MaxExpanded
  /\ lastEvent' = [type |-> "click"]
  /\ UNCHANGED <<masterData, searchQuery, activeGroups, pending>>

\* handleFileUpload up to its await: the parse of the chosen file starts
handleFileUploadStart(file) ==
  /\ Len(pending) < MaxPending
  /\ pending' = Append(pending, [file |-> file, stale |-> FALSE])
  /\ lastEvent' = [type |-> "other"]
  /\ UNCHANGED <<masterData, searchQuery, activeGroups, expandedNodes>>

Remove(seq, i) ==
  [j \in 1..(Len(seq) - 1) |-> IF j < i THEN seq[j] ELSE seq[j + 1]]

\* the imports in flight once pending[i] has installed its graph: those
\* started before it are stale, a later import has completed before them
MarkOlderStale(seq, i) ==
  [j \in DOMAIN seq |-> IF j < i THEN [seq[j] EXCEPT !.stale = TRUE] ELSE seq[j]]

\* new Set(['AGI_CORE'])
NewExpansion == {CenterId}

\* variant: the import replaces the graph and keeps the Expansion Set
InstallImport_keepExpansion(newData) ==
  /\ masterData' = newData
  /\ UNCHANGED expandedNodes

\* the state updates of handleFileUpload after a resolved await
InstallImport(newData) ==
  /\ masterData' = newData
  /\ expandedNodes' = NewExpansion

\* handleFileUpload after its await, when parseCsvToGraph resolves
handleFileUploadResolve(i) ==
  /\ InstallImport(parseCsvToGraph(FileRows(pending[i].file)))
  /\ pending' = Remove(MarkOlderStale(pending, i), i)
  /\ lastEvent' = [type |-> "importResolve",
                   overwritesNewer |-> (pending[i].stale /\ masterData' # masterData),
                   fromSeed |-> (expandedNodes = NewExpansion)]
  /\ UNCHANGED <<searchQuery, activeGroups>>

\* variant: a failed import falls back to the built-in graph
RejectUpdates_fallback ==
  /\ masterData' = DEFAULT_GRAPH_DATA
  /\ UNCHANGED <<searchQuery, activeGroups, expandedNodes>>

\* the state updates of the catch block: console.error and alert only
RejectUpdates == UNCHANGED <<masterData, searchQuery, activeGroups, expandedNodes>>

\* handleFileUpload after its await, when parseCsvToGraph rejects
handleFileUploadReject(i) ==
  /\ RejectUpdates
  /\ pending' = Remove(pending, i)
  /\ lastEvent' = [type |-> "importReject"]

\* variant: the reset keeps the text of the search box
ResetUpdates_keepQuery ==
  /\ masterData' = DEFAULT_GRAPH_DATA
  /\ expandedNodes' = NewExpansion
  /\ UNCHANGED searchQuery

\* the state updates of a confirmed reset
ResetUpdates ==
  /\ masterData' = DEFAULT_GRAPH_DATA
  /\ expandedNodes' = NewExpansion
  /\ searchQuery' = ""

\* handleReset: when window.confirm is declined nothing is updated
handleReset(confirmed) ==
  IF confirmed
    THEN /\ ResetUpdates
         /\ pending' = [j \in DOMAIN pending |->
                          [pending[j] EXCEPT !.stale = FALSE]]
         /\ lastEvent' = [type |-> "reset"]
         /\ UNCHANGED activeGroups
    ELSE UNCHANGED vars

toggleGroup(group) ==
  /\ activeGroups' = IF group \in activeGroups
                       THEN activeGroups \ {group}
                       ELSE activeGroups \cup {group}
  /\ lastEvent' = [type |-> "other"]
  /\ UNCHANGED <<masterData, searchQuery, expandedNodes, pending>>

\* onChange of the search input
setSearchQuery(q) ==
  /\ q # searchQuery
  /\ searchQuery' = q
  /\ lastEvent' = [type |-> "other"]
  /\ UNCHANGED <<masterData, activeGroups, expandedNodes, pending>>

Init ==
  /\ masterData = DEFAULT_GRAPH_DATA
  /\ searchQuery = ""
  /\ activeGroups = Groups
  /\ expandedNodes = {CenterId}
  /\ pending = <<>>
  /\ lastEvent = [type |-> "init"]

Next ==
  \/ \E node \in Range(visibleData.nodes) : handleNodeClick(node)
  \/ \E file \in Files : handleFileUploadStart(file)
  \/ \E i \in DOMAIN pending : handleFileUploadResolve(i)
  \/ \E i \in DOMAIN pending : handleFileUploadReject(i)
  \/ \E confirmed \in BOOLEAN : handleReset(confirmed)
  \/ \E group \in Groups : toggleGroup(group)
  \/ \E q \in Queries : setSearchQuery(q)

Spec == Init /\ [][Next]_vars

(***************************************************************************)
(* The visibility engine on its own: useMemo is re-evaluated whenever one  *)
(* of its dependencies changes.  The graph is drawn from a bounded family  *)
(* of graphs with unique node ids: the center present or absent, node A of *)
(* any group (a group outside the three tiers included), node B optional   *)
(* and without a desc, and up to MaxLinks links between any two of the     *)
(* ids, the id "Z" of no node among them (a dangling endpoint).            *)
(***************************************************************************)
MaxLinks == 2

EngineIds == <<CenterId, "A", "B", "Z">>

EngineCenter == [id |-> CenterId, name |-> "AGI Core", group |-> "center",
                 desc |-> "Root"]
EngineA(g) == [id |-> "A", name |-> "Alpha Net", group |-> g, desc |-> "beta"]
EngineB(g) == [id |-> "B", name |-> "Beta", group |-> g]

EngineNodeLists ==
  {c \o a \o b :
     c \in {<<>>, <<EngineCenter>>},
     a \in {<<EngineA(g)>> : g \in {"planet", "satellite", "moon"}},
     b \in {<<>>} \cup {<<EngineB(g)>> : g \in {"planet", "satellite"}}}

\* every ordered pair of distinct ids, numbered
EnginePairs ==
  {p \in (1..Len(EngineIds)) \X (1..Len(EngineIds)) : p[1] # p[2]}

PairRank(p) == (p[1] - 1) * Len(EngineIds) + p[2]

\* link lists up to the order of their links: parallel links included
EngineLinkLists ==
  {[i \in DOMAIN ps |-> Link(EngineIds[ps[i][1]], EngineIds[ps[i][2]])] :
     ps \in {qs \in UNION {[1..k -> EnginePairs] : k \in 0..MaxLinks} :
               \A i \in DOMAIN qs : \A j \in DOMAIN qs :
                  i < j => PairRank(qs[i]) <= PairRank(qs[j])}}

EngineGraphs ==
  {[nodes |-> ns, links |-> ls] : ns \in EngineNodeLists, ls \in EngineLinkLists}

EngineQueries == {"", "NET", "beta"}

InitEngine ==
  /\ masterData \in EngineGraphs
  /\ searchQuery = ""
  /\ activeGroups = Groups
  /\ expandedNodes = {CenterId}
  /\ pending = <<>>
  /\ lastEvent = [type |-> "init"]

\* a dependency of useMemo changes: activeGroups
ChangeActiveGroups(group) ==
  /\ activeGroups' = IF group \in activeGroups
                       THEN activeGroups \ {group}
                       ELSE activeGroups \cup {group}
  /\ UNCHANGED <<masterData, searchQuery, expandedNodes, pending, lastEvent>>

\* a dependency of useMemo changes: expandedNodes
ChangeExpandedNodes(id) ==
  /\ expandedNodes' = ToggleExpanded(expandedNodes, id)
  /\ UNCHANGED <<masterData, searchQuery, activeGroups, pending, lastEvent>>

\* a dependency of useMemo changes: searchQuery
ChangeSearchQuery(q) ==
  /\ q # searchQuery
  /\ searchQuery' = q
  /\ UNCHANGED <<masterData, activeGroups, expandedNodes, pending, lastEvent>>

NextEngine ==
  \/ \E group \in Groups : ChangeActiveGroups(group)
  \/ \E id \in Range(EngineIds) : ChangeExpandedNodes(id)
  \/ \E q \in EngineQueries : ChangeSearchQuery(q)

SpecEngine == InitEngine /\ [][NextEngine]_vars

(***************************************************************************)
(* The application started on a graph with a shared satellite: a center,   *)
(* two planets linked to it, and a satellite linked to both planets, each  *)
(* of these two links in either direction.  The user clicks visible nodes, *)
(* switches categories and types queries.                                  *)
(***************************************************************************)
SharedCenter == [id |-> CenterId, name |-> "AGI Core", group |-> "center",
                 desc |-> "Root"]
SharedP1 == [id |-> "P1", name |-> "Planet One", group |-> "planet"]
SharedP2 == [id |-> "P2", name |-> "Planet Two", group |-> "planet"]
SharedS == [id |-> "S", name |-> "Shared Moon", group |-> "satellite",
            desc |-> "of both planets"]

SharedGraphs ==
  {[nodes |-> <<SharedCenter, SharedP1, SharedP2, SharedS>>,
    links |-> <<Link(CenterId, "P1"), Link(CenterId, "P2"), l1, l2>>] :
     l1 \in {Link("P1", "S"), Link("S", "P1")},
     l2 \in {Link("P2", "S"), Link("S", "P2")}}

InitShared ==
  /\ masterData \in SharedGraphs
  /\ searchQuery = ""
  /\ activeGroups = Groups
  /\ expandedNodes = {CenterId}
  /\ pending = <<>>
  /\ lastEvent = [type |-> "init"]

NextShared ==
  \/ \E node \in Range(visibleData.nodes) : handleNodeClick(node)
  \/ \E group \in Groups : toggleGroup(group)
  \/ \E q \in Queries : setSearchQuery(q)

SpecShared == InitShared /\ [][NextShared]_vars

(***************************************************************************)
(* CSV ingestion on its own: the user has picked one file, and Papa either *)
(* hands its rows to the complete callback or reports an error.  The rows  *)
(* are drawn from a bounded family: up to MaxRows rows, each of one of the *)
(* shapes below (a name under each alias or in the first column only, the  *)
(* same name with and without blanks around it, the center id as a name, a *)
(* blank name, an empty name, a first value that is not a text, several    *)
(* aliases at once, keys in another case).                                 *)
(***************************************************************************)
MaxRows == 3

IngestRowShapes ==
  { <<Field("Name", Text("Foo")), Field("Description", Text("Bar"))>>,
    <<Field("Name", Text(" Foo ")), Field("Description", Text("Baz")),
      Field("Evidence", Text("Ev")), Field("Insight", Text("In"))>>,
    <<Field("Detail", Text("Qux")), Field("Title", Text("Foo"))>>,
    <<Field("Name", Text(" AGI_CORE")), Field("Description", Text("Again"))>>,
    <<Field("Name", Text("  ")), Field("Description", Text("Blank"))>>,
    <<Field("Name", Text("")), Field("Description", Text("Empty"))>>,
    <<Field("__parsed_extra", ExtraArray)>>,
    <<Field(KeyZhName, Text("Vision")), Field(KeyZhDesc, Text("Seeing")),
      Field(KeyZhAnalysis, Text("An"))>>,
    <<Field("Topic", Text("Audio\t")), Field("Reference", Text("Ref"))>>,
    <<Field("Title", Text("T1")), Field("Node", Text("N1")),
      Field("Name", Text("M1")), Field(KeyZhName, Text("Z1"))>>,
    <<Field("Title", Text("T1")), Field("Node", Text("N1")),
      Field("Name", Text("")), Field(KeyZhName, Text(""))>>,
    <<Field("Id", Text("K1")), Field("name", Text("Lower")),
      Field("TITLE", Text("Upper"))>>,
    <<Field(KeyZhDesc, Text("Sub")), Field("Name", Text("M2"))>> }

IngestRowLists == UNION {[1..k -> IngestRowShapes] : k \in 0..MaxRows}

\* what Papa.parse does with the file: it calls complete or error
ParseEvents ==
  {[callback |-> "complete", data |-> rows] : rows \in IngestRowLists}
    \cup {[callback |-> "error", data |-> <<>>]}

\* the promise returned by parseCsvToGraph, once Papa has called back
Settle(event) ==
  IF event.callback = "complete"
    THEN [state |-> "fulfilled", value |-> parseCsvToGraph(event.data)]
    ELSE [state |-> "rejected"]

InitIngest ==
  /\ masterData = DEFAULT_GRAPH_DATA
  /\ searchQuery = ""
  /\ activeGroups = Groups
  /\ expandedNodes = {CenterId}
  /\ pending \in {<<[event |-> e, stale |-> FALSE]>> : e \in ParseEvents}
  /\ lastEvent = [type |-> "init"]

\* handleFileUpload after its await, the promise fulfilled
IngestFulfilled ==
  /\ pending # <<>>
  /\ Settle(pending[1].event).state = "fulfilled"
  /\ InstallImport(Settle(pending[1].event).value)
  /\ pending' = <<>>
  /\ lastEvent' = [type |-> "ingest", state |-> "fulfilled",
                   data |-> pending[1].event.data]
  /\ UNCHANGED <<searchQuery, activeGroups>>

\* handleFileUpload after its await, the promise rejected
IngestRejected ==
  /\ pending # <<>>
  /\ Settle(pending[1].event).state = "rejected"
  /\ RejectUpdates
  /\ pending' = <<>>
  /\ lastEvent' = [type |-> "ingest", state |-> "rejected", data |-> <<>>]

NextIngest == IngestFulfilled \/ IngestRejected

SpecIngest == InitIngest /\ [][NextIngest]_vars

(***************************************************************************)
(* The visibility engine on graphs whose links the force-graph layout has  *)
(* touched: a center, a planet and a satellite, a link between the center  *)
(* and the planet and one between the planet and the satellite in either   *)
(* direction, every endpoint either a bare id or a node reference.         *)
(***************************************************************************)
EndpointForms(id) == {BareId(id), NodeRef(id)}

LinkForms(s, t) ==
  {[source |-> a, target |-> b] : a \in EndpointForms(s), b \in EndpointForms(t)}

MixedGraphs ==
  {[nodes |-> <<EngineCenter, EngineA("planet"), EngineB("satellite")>>,
    links |-> <<l1, l2>>] :
     l1 \in LinkForms(CenterId, "A"),
     l2 \in LinkForms("A", "B") \cup LinkForms("B", "A")}

InitEndpoints ==
  /\ masterData \in MixedGraphs
  /\ searchQuery = ""
  /\ activeGroups = Groups
  /\ expandedNodes = {CenterId}
  /\ pending = <<>>
  /\ lastEvent = [type |-> "init"]

NextEndpoints ==
  \/ \E group \in Groups : ChangeActiveGroups(group)
  \/ \E id \in {CenterId, "A", "B"} : ChangeExpandedNodes(id)
  \/ \E q \in EngineQueries : ChangeSearchQuery(q)

SpecEndpoints == InitEndpoints /\ [][NextEndpoints]_vars

(***************************************************************************)
(* The explore-mode branch of useMemo on its own: the graphs of the        *)
(* bounded family, the query empty, and activeGroups and expandedNodes     *)
(* changing.                                                               *)
(***************************************************************************)
NextExplore ==
  \/ \E group \in Groups : ChangeActiveGroups(group)
  \/ \E id \in Range(EngineIds) : ChangeExpandedNodes(id)

SpecExplore == InitEngine /\ [][NextExplore]_vars

(***************************************************************************)
(* A session of selections, category switches and query edits on the       *)
(* built-in graph, without imports or resets.  lastEvent remembers, from   *)
(* the moment a search begins, the categories and the view of that moment; *)
(* it keeps them while the search lasts and, once the query is cleared,    *)
(* until the next selection.                                               *)
(***************************************************************************)
SessionQueries == {"", "AI", "net"}

\* handleNodeClick in a session
SessionClick(node) ==
  /\ expandedNodes' = ClickExpansion(expandedNodes, node, searchQuery)
  /\ Cardinality(expandedNodes') <= MaxExpanded
  /\ lastEvent' = IF searchQuery = "" THEN [type |-> "explore"] ELSE lastEvent
  /\ UNCHANGED <<masterData, searchQuery, activeGroups, pending>>

\* toggleGroup in a session
SessionToggleGroup(group) ==
  /\ activeGroups' = IF group \in activeGroups
                       THEN activeGroups \ {group}
                       ELSE activeGroups \cup {group}
  /\ UNCHANGED <<masterData, searchQuery, expandedNodes, pending, lastEvent>>

\* onChange of the search input in a session
SessionSetSearchQuery(q) ==
  /\ q # searchQuery
  /\ searchQuery' = q
  /\ lastEvent' =
       IF searchQuery = "" /\ q # ""
         THEN [type |-> "searching", groups |-> activeGroups,
               view |-> visibleData]
       ELSE IF searchQuery # "" /\ q = ""
         THEN [lastEvent EXCEPT !.type = "cleared"]
       ELSE lastEvent
  /\ UNCHANGED <<masterData, activeGroups, expandedNodes, pending>>

InitSession ==
  /\ masterData = DEFAULT_GRAPH_DATA
  /\ searchQuery = ""
  /\ activeGroups = Groups
  /\ expandedNodes = {CenterId}
  /\ pending = <<>>
  /\ lastEvent = [type |-> "explore"]

NextSession ==
  \/ \E node \in Range(visibleData.nodes) : SessionClick(node)
  \/ \E group \in Groups : SessionToggleGroup(group)
  \/ \E q \in SessionQueries : SessionSetSearchQuery(q)

SpecSession == InitSession /\ [][NextSession]_vars

(***************************************************************************)
(* Properties of the visibility engine, checked under SpecEngine.          *)
(***************************************************************************)
VisibleNodes == Range(visibleData.nodes)
VisibleIds == {n.id : n \in VisibleNodes}
NodeIds(md) == {n.id : n \in Range(md.nodes)}

\* some link of the graph joins a and b, in either direction
Linked(md, a, b) ==
  \E l \in Range(md.links) :
     \/ EndpointId(l.source) = a /\ EndpointId(l.target) = b
     \/ EndpointId(l.source) = b /\ EndpointId(l.target) = a

\* C1: in explore mode (empty query) a node is visible if and only if its
\* group is in activeGroups and it is a center or a planet, or it is a
\* satellite with a link neighbour, in either direction, in expandedNodes.
C1_ExploreVisibility ==
  searchQuery = "" =>
    LET shown == VisibleNodes IN
    \A n \in Range(masterData.nodes) :
       (n \in shown) <=>
         /\ n.group \in activeGroups
         /\ \/ n.group \in {"center", "planet"}
            \/ /\ n.group = "satellite"
               /\ \E x \in expandedNodes : Linked(masterData, n.id, x)

\* explore mode shows one satellite, reached through a link of which it is
\* the source, and hides another whose category is active
C1_Witness ==
  /\ searchQuery = ""
  /\ \E n \in VisibleNodes :
        /\ n.group = "satellite"
        /\ \A l \in Range(masterData.links) : EndpointId(l.target) # n.id
  /\ \E n \in Range(masterData.nodes) :
        n.group = "satellite" /\ n.group \in activeGroups /\ n \notin VisibleNodes

\* C2: in search mode (non-empty query) the visible nodes are exactly the
\* nodes whose group is in activeGroups, whatever the Expansion Set is.
C2_SearchIndependence ==
  searchQuery # "" =>
    LET shown == visibleData.nodes IN
    /\ Range(shown) = {n \in Range(masterData.nodes) : n.group \in activeGroups}
    /\ Len(shown) = Cardinality(Range(shown))
    /\ \A E \in SUBSET Range(EngineIds) :
          visibleDataOf(masterData, activeGroups, E, searchQuery).nodes = shown

\* search mode shows a satellite that explore mode hides in the same state
C2_Witness ==
  /\ searchQuery # ""
  /\ \E n \in VisibleNodes :
        /\ n.group = "satellite"
        /\ n \notin Range(exploreVisible(masterData, activeGroups,
                                         expandedNodes).nodes)

\* the node's name or desc contains the query, case-insensitively
ContainsQuery(n, q) ==
  \/ includes(toLowerCase(n.name), toLowerCase(q))
  \/ ("desc" \in DOMAIN n /\ includes(toLowerCase(n.desc), toLowerCase(q)))

\* C3: in search mode highlightedNodeIds holds exactly the visible nodes
\* whose name or desc contains the query case-insensitively; no node hidden
\* by the category filter is highlighted.
C3_HighlightWithinVisible ==
  searchQuery # "" =>
    /\ highlightedNodeIds \subseteq VisibleIds
    /\ highlightedNodeIds =
         {n.id : n \in {m \in VisibleNodes : ContainsQuery(m, searchQuery)}}

\* C4: in both modes the visible links are exactly the links of the graph
\* whose two endpoints are ids of visible nodes, in the order of the graph;
\* a link with an endpoint that is no node of the graph is never visible.
C4_VisibleLinks ==
  LET view == visibleData
      ids == {n.id : n \in Range(view.nodes)}
  IN /\ view.links =
          SelectSeq(masterData.links,
            LAMBDA l : EndpointId(l.source) \in ids /\ EndpointId(l.target) \in ids)
     /\ \A l \in Range(view.links) :
           /\ EndpointId(l.source) \in NodeIds(masterData)
           /\ EndpointId(l.target) \in NodeIds(masterData)

\* the graph has a link from a visible node to the id of no node, which is
\* hidden, beside a link that is shown
C4_Witness ==
  /\ \E l \in Range(masterData.links) :
        /\ EndpointId(l.source) \in VisibleIds
        /\ EndpointId(l.target) \notin NodeIds(masterData)
        /\ l \notin Range(visibleData.links)
  /\ visibleData.links # <<>>

\* the Expansion Set is the seed, every category is active, no query
SeedView ==
  /\ expandedNodes = {CenterId}
  /\ activeGroups = Groups
  /\ searchQuery = ""

\* the nodes of the first two tiers
CenterAndPlanets ==
  {n \in Range(masterData.nodes) : n.group \in {"center", "planet"}}

NoCenterExplore ==
  /\ searchQuery = ""
  /\ CenterId \notin NodeIds(masterData)

C15_UnknownGroupHidden ==
  /\ activeGroups \subseteq {"center", "planet", "satellite"}
  /\ \A n \in Range(visibleData.nodes) :
        n.group \in {"center", "planet", "satellite"}

\* search mode, every category active, on a graph with a node of another
\* group whose name matches the query: the node is highlighted and hidden
C15_Witness ==
  /\ searchQuery # ""
  /\ activeGroups = Groups
  /\ visibleData.nodes # <<>>
  /\ \E n \in Range(masterData.nodes) :
        /\ n.group \notin Groups
        /\ n.id \in highlightedNodeIds
        /\ n \notin VisibleNodes

\* C23: in explore mode (empty query) highlightedNodeIds is empty, for
\* every graph, activeGroups and expandedNodes.
C23_ExploreNoHighlight ==
  searchQuery = "" => highlightedNodeIds = {}

\* explore mode shows nodes after the Expansion Set and the categories
\* were changed, and the name of every node contains the empty query
C23_Witness ==
  /\ searchQuery = ""
  /\ expandedNodes # {CenterId}
  /\ activeGroups # Groups
  /\ visibleData.nodes # <<>>
  /\ \A n \in Range(masterData.nodes) : ContainsQuery(n, searchQuery)

(***************************************************************************)
(* Properties of the CSV ingestion, checked under SpecIngest.              *)
(***************************************************************************)

\* the trimmed name a row resolves to; "" when it resolves to no usable text
UsableName(row) ==
  LET v == ResolveName(row)
  IN IF v.type = "string" THEN trim(v.text) ELSE ""

UsableNames(rows) == {UsableName(rows[i]) : i \in DOMAIN rows} \ {""}

\* the first row of the list with the usable name x
FirstRowNamed(rows, x) ==
  rows[CHOOSE i \in DOMAIN rows :
         /\ UsableName(rows[i]) = x
         /\ \A j \in 1..(i - 1) : UsableName(rows[j]) # x]

\* the complete callback has run and the application holds its graph
Ingested == lastEvent.type = "ingest" /\ lastEvent.state = "fulfilled"

\* C17: rows whose resolved names are equal after trimming produce exactly
\* one node and exactly one link to it; the node carries the desc, evidence
\* and analysis of the first such row; a row whose trimmed name is AGI_CORE
\* produces no node and no link.
C17_IngestDedup ==
  Ingested =>
    LET rows == lastEvent.data
        g == masterData
    IN \A x \in UsableNames(rows) :
         LET at == {j \in DOMAIN g.nodes : g.nodes[j].id = x}
             to == {j \in DOMAIN g.links : EndpointId(g.links[j].target) = x}
             first == FirstRowNamed(rows, x)
         IN IF x = "AGI_CORE"
              THEN /\ at = {1}
                   /\ g.nodes[1].group = "center"
                   /\ g.nodes[1].name = "AGI Future"
                   /\ to = {}
              ELSE /\ Cardinality(at) = 1
                   /\ Cardinality(to) = 1
                   /\ \A j \in at :
                         /\ g.nodes[j].desc = ResolveDesc(first).text
                         /\ g.nodes[j].evidence = ResolveEvidence(first).text
                         /\ g.nodes[j].analysis = ResolveAnalysis(first).text

\* the rows ingested hold the same name twice, with blanks around it and
\* another desc the second time, and a row named as the center
C17_Witness ==
  /\ Ingested
  /\ \E i \in DOMAIN lastEvent.data : \E j \in DOMAIN lastEvent.data :
        /\ i < j
        /\ UsableName(lastEvent.data[i]) = UsableName(lastEvent.data[j])
        /\ ResolveName(lastEvent.data[i]) # ResolveName(lastEvent.data[j])
        /\ ResolveDesc(lastEvent.data[i]) # ResolveDesc(lastEvent.data[j])
        /\ UsableName(lastEvent.data[i]) \in NodeIds(masterData) \ {CenterId}
  /\ \E k \in DOMAIN lastEvent.data : UsableName(lastEvent.data[k]) = CenterId

\* C18: a row whose name is missing, not text, or blank after trimming
\* produces no node and no link and does not abort the ingestion: every
\* row with a fresh non-blank name still yields its node and its link, and
\* the ingestion resolves rather than rejects.
C18_IngestLenient ==
  [][(pending # <<>> /\ pending[1].event.callback = "complete") =>
       LET rows == pending[1].event.data
           g == masterData'
           fresh == UsableNames(rows) \ {CenterId}
       IN /\ lastEvent'.state = "fulfilled"
          /\ Len(g.nodes) = 1 + Cardinality(fresh)
          /\ Len(g.links) = Cardinality(fresh)
          /\ \A n \in Range(g.nodes) : n.id # "" /\ trim(n.id) = n.id
          /\ \A x \in fresh :
                /\ \E n \in Range(g.nodes) : n.id = x
                /\ \E l \in Range(g.links) :
                      EndpointId(l.source) = CenterId /\ EndpointId(l.target) = x]_vars

\* two rows were skipped, one whose name is no text and one whose name is
\* blank or empty, and the row after them has its node
C18_Witness ==
  /\ Ingested
  /\ Len(lastEvent.data) = 3
  /\ ResolveName(lastEvent.data[1]).type # "string"
  /\ ResolveName(lastEvent.data[2]).type = "string"
  /\ UsableName(lastEvent.data[2]) = ""
  /\ UsableName(lastEvent.data[3]) \in NodeIds(masterData) \ {CenterId}
  /\ Len(masterData.nodes) = 2

\* C19: the ingested graph is a two-level star: the center node, then one
\* planet node per accepted row with id = name = the trimmed resolved name,
\* and one link per accepted row from the center id to that node, so that
\* links = nodes - 1; no satellite, no link from another source.  The rows
\* [{Name: Foo, Description: Bar}] give 2 nodes and the link center->Foo.
C19_IngestStar ==
  Ingested =>
    LET rows == lastEvent.data
        g == masterData
        fresh == UsableNames(rows) \ {CenterId}
    IN /\ g.nodes[1].id = "AGI_CORE" /\ g.nodes[1].group = "center"
       /\ Len(g.nodes) = 1 + Cardinality(fresh)
       /\ Len(g.links) = Len(g.nodes) - 1
       /\ {g.nodes[j].id : j \in 2..Len(g.nodes)} = fresh
       /\ \A j \in 2..Len(g.nodes) :
             /\ g.nodes[j].group = "planet"
             /\ g.nodes[j].name = g.nodes[j].id
             /\ g.links[j - 1].source = BareId("AGI_CORE")
             /\ g.links[j - 1].target = BareId(g.nodes[j].id)
       /\ (rows = << <<Field("Name", Text("Foo")),
                       Field("Description", Text("Bar"))>> >>) =>
             /\ Len(g.nodes) = 2
             /\ g.nodes[2].id = "Foo" /\ g.nodes[2].desc = "Bar"
             /\ g.links = <<Link("AGI_CORE", "Foo")>>

\* three rows were accepted, one of them named by its first column alone
C19_Witness ==
  /\ Ingested
  /\ Len(masterData.nodes) = 4
  /\ Len(masterData.links) = 3
  /\ \E n \in Range(masterData.nodes) : n.id = "Audio" /\ n.evidence = "Ref"

(***************************************************************************)
(* Properties of the satellite gating, checked under SpecShared.           *)
(***************************************************************************)

\* the satellites with two distinct planet neighbours, with those planets
SharedTriples ==
  {t \in Range(masterData.nodes) \X Range(masterData.nodes)
           \X Range(masterData.nodes) :
     /\ t[1].group = "satellite"
     /\ t[2].group = "planet" /\ t[3].group = "planet"
     /\ t[2].id # t[3].id
     /\ Linked(masterData, t[1].id, t[2].id)
     /\ Linked(masterData, t[1].id, t[3].id)}

\* C12: a satellite with two distinct planet neighbours P1 and P2, its
\* category active and the query empty, is visible in every state where P1
\* or P2 is in expandedNodes; and a step that collapses one of the two
\* while the other remains expanded leaves the satellite visible.
C12_EitherNeighbor ==
  /\ [](\A t \in SharedTriples :
          (/\ "satellite" \in activeGroups
           /\ searchQuery = ""
           /\ (t[2].id \in expandedNodes \/ t[3].id \in expandedNodes))
            => t[1] \in VisibleNodes)
  /\ [][\A t \in SharedTriples :
          (/\ t[1] \in VisibleNodes
           /\ t[2].id \in expandedNodes /\ t[2].id \notin expandedNodes'
           /\ t[3].id \in expandedNodes /\ t[3].id \in expandedNodes'
           /\ "satellite" \in activeGroups' /\ searchQuery' = ""
           /\ masterData' = masterData)
            => t[1] \in VisibleNodes']_vars

\* a click has left the center collapsed and exactly one of the two planet
\* neighbours expanded, and the satellite, the source of its link to that
\* planet, is visible
C12_Witness ==
  /\ lastEvent.type = "click"
  /\ searchQuery = ""
  /\ \E t \in SharedTriples :
        /\ expandedNodes = {t[2].id}
        /\ t[1] \in VisibleNodes
        /\ \E l \in Range(masterData.links) :
              EndpointId(l.source) = t[1].id /\ EndpointId(l.target) = t[2].id

(***************************************************************************)
(* Properties of the event handlers, checked under Spec.                   *)
(***************************************************************************)

\* the number of nodes of the graph in the group g
CountGroup(md, g) == Cardinality({i \in DOMAIN md.nodes : md.nodes[i].group = g})

\* the group of the node with the given id
GroupOf(md, id) ==
  (CHOOSE n \in Range(md.nodes) : n.id = id).group

\* the number of links of the view from a node of group g to one of group h
CountLinks(md, view, g, h) ==
  Cardinality({i \in DOMAIN view.links :
     /\ GroupOf(md, EndpointId(view.links[i].source)) = g
     /\ GroupOf(md, EndpointId(view.links[i].target)) = h})

\* C13: on the built-in default graph (1 center, 5 planets, 10 satellites,
\* 15 links) with all three categories active, expandedNodes = {AGI_CORE,
\* Neural_Nets} and an empty query, the visible nodes are exactly the
\* center, the 5 planets and the satellites Transformers and Backprop (8
\* nodes), and exactly 7 links are visible: 5 center-planet and 2
\* planet-satellite.
C13_ScenarioB ==
  (/\ masterData = DEFAULT_GRAPH_DATA
   /\ activeGroups = {"center", "planet", "satellite"}
   /\ expandedNodes = {"AGI_CORE", "Neural_Nets"}
   /\ searchQuery = "") =>
    LET view == visibleData IN
    /\ CountGroup(masterData, "center") = 1
    /\ CountGroup(masterData, "planet") = 5
    /\ CountGroup(masterData, "satellite") = 10
    /\ Len(masterData.links) = 15
    /\ Len(view.nodes) = 8
    /\ {n.id : n \in Range(view.nodes)} =
         {"AGI_CORE", "Neural_Nets", "Reasoning", "Creativity", "Ethics",
          "Robotics", "Transformers", "Backprop"}
    /\ Len(view.links) = 7
    /\ CountLinks(masterData, view, "center", "planet") = 5
    /\ CountLinks(masterData, view, "planet", "satellite") = 2

\* the scenario's state, entered by a click on Neural_Nets
C13_Witness ==
  /\ lastEvent.type = "click"
  /\ masterData = DEFAULT_GRAPH_DATA
  /\ activeGroups = Groups
  /\ expandedNodes = {CenterId, "Neural_Nets"}
  /\ searchQuery = ""

\* the step is a click on the expanded center, in explore mode
CollapsesCenter ==
  /\ lastEvent'.type = "click"
  /\ searchQuery = ""
  /\ CenterId \in expandedNodes
  /\ \E n \in Range(visibleData.nodes) : n.id = CenterId /\ handleNodeClick(n)

C5_ClickToggles ==
  [][(lastEvent'.type = "click" /\ searchQuery = "") =>
       \A n \in Range(masterData.nodes) :
          handleNodeClick(n) =>
             /\ (n.id \in expandedNodes') <=> (n.id \notin expandedNodes)
             /\ expandedNodes' \ {n.id} = expandedNodes \ {n.id}]_vars

\* clicks have collapsed the center and expanded another node
C5_Witness ==
  /\ lastEvent.type = "click"
  /\ searchQuery = ""
  /\ CenterId \notin expandedNodes
  /\ expandedNodes # {}

\* C6: a click on any node while the query is non-empty leaves
\* expandedNodes unchanged.
C6_ClickWhileSearching ==
  [][(lastEvent'.type = "click" /\ searchQuery # "") =>
       \A n \in Range(masterData.nodes) :
          handleNodeClick(n) => expandedNodes' = expandedNodes]_vars

\* a click handled in search mode, with an Expansion Set that earlier
\* clicks had changed
C6_Witness ==
  /\ lastEvent.type = "click"
  /\ searchQuery # ""
  /\ expandedNodes # {CenterId}

\* C7: after a confirmed reset the Expansion Set is exactly {AGI_CORE}, the
\* graph is the built-in default graph and the query is empty.
C7_AfterReset ==
  lastEvent.type = "reset" =>
     /\ expandedNodes = {"AGI_CORE"}
     /\ masterData = DEFAULT_GRAPH_DATA
     /\ searchQuery = ""

\* a confirmed reset has been handled while an import was in flight
C7_Witness ==
  /\ lastEvent.type = "reset"
  /\ pending # <<>>

\* the step installs a graph: an import resolves or a reset is confirmed
ReplacesGraph == lastEvent'.type \in {"importResolve", "reset"}

\* C8: every step that replaces the graph, by a resolved import or by a
\* confirmed reset, leaves the Expansion Set equal to {AGI_CORE}, whatever
\* it was before the step.
C8_ReplaceResetsExpansion ==
  [][ReplacesGraph => expandedNodes' = {"AGI_CORE"}]_vars

\* an import has resolved in a state whose Expansion Set clicks had changed
C8_Witness ==
  /\ lastEvent.type = "importResolve"
  /\ ~lastEvent.fromSeed
  /\ masterData # DEFAULT_GRAPH_DATA

\* C9: an import that resolves never replaces, by a different graph, the
\* graph installed by an import that was started after it.
C9_NoStaleOverwrite ==
  lastEvent.type = "importResolve" => ~lastEvent.overwritesNewer

\* C10: a rejected import leaves the graph, the Expansion Set, the query
\* and the category filters as they were.
C10_RejectChangesNothing ==
  [][lastEvent'.type = "importReject" =>
       /\ masterData' = masterData
       /\ expandedNodes' = expandedNodes
       /\ searchQuery' = searchQuery
       /\ activeGroups' = activeGroups]_vars

\* an import has been rejected while an imported graph was shown, with a
\* changed Expansion Set, a query and a category switched off
C10_Witness ==
  /\ lastEvent.type = "importReject"
  /\ masterData # DEFAULT_GRAPH_DATA
  /\ expandedNodes # {CenterId}
  /\ searchQuery # ""
  /\ activeGroups # Groups

\* C20: in every reachable state, after any sequence of imports and resets,
\* the current graph has exactly one node of group center, that node's id
\* is AGI_CORE, and the node ids are pairwise distinct.
C20_GraphInvariant ==
  LET ns == masterData.nodes
      centers == {j \in DOMAIN ns : ns[j].group = "center"}
  IN /\ Cardinality(centers) = 1
     /\ \A j \in centers : ns[j].id = "AGI_CORE"
     /\ \A i \in DOMAIN ns : \A j \in DOMAIN ns : i # j => ns[i].id # ns[j].id

\* the graph of a file with a repeated name and a row named as the center
\* has been installed: the center and one planet
C20_Witness ==
  /\ lastEvent.type = "importResolve"
  /\ \E i \in DOMAIN FileRows("scenarioA.csv") :
        UsableName(FileRows("scenarioA.csv")[i]) = CenterId
  /\ masterData = parseCsvToGraph(FileRows("scenarioA.csv"))
  /\ Len(masterData.nodes) = 2

(***************************************************************************)
(* Properties of the link endpoints, checked under SpecEndpoints.          *)
(***************************************************************************)

\* the node id an endpoint stands for, in either form
IdOf(e) == IF e.kind = "object" THEN e.id ELSE e.value

\* the graph with every link endpoint written as a bare id
Canonical(md) ==
  [nodes |-> md.nodes,
   links |-> [i \in DOMAIN md.links |->
                Link(IdOf(md.links[i].source), IdOf(md.links[i].target))]]

\* the links of a view as pairs of endpoint ids
EndpointPairs(view) ==
  [i \in DOMAIN view.links |->
     <<IdOf(view.links[i].source), IdOf(view.links[i].target)>>]

\* C21: the visible nodes, the visible links as pairs of endpoint ids and
\* the highlighted ids are the same whether each link endpoint is a bare
\* id or a node reference carrying that id, in any mixture.
C21_EndpointForms ==
  LET plain == Canonical(masterData)
      mine == visibleData
      ref == visibleDataOf(plain, activeGroups, expandedNodes, searchQuery)
  IN /\ mine.nodes = ref.nodes
     /\ EndpointPairs(mine) = EndpointPairs(ref)
     /\ \A i \in DOMAIN mine.links : mine.links[i] \in Range(masterData.links)
     /\ highlightedNodeIds =
          highlightedNodeIdsOf(plain, activeGroups, expandedNodes, searchQuery)

\* explore mode shows the satellite through a link whose source is a node
\* reference and whose target is a bare id, and shows that link
C21_Witness ==
  /\ searchQuery = ""
  /\ CenterId \notin expandedNodes
  /\ \E n \in VisibleNodes : n.group = "satellite"
  /\ \E l \in Range(visibleData.links) :
        /\ l.source.kind = "object" /\ l.target.kind = "string"
        /\ "B" \in {l.source.id, l.target.value}

(***************************************************************************)
(* Name resolution of the CSV ingestion, checked under SpecIngest.         *)
(***************************************************************************)

\* the non-English column keys the parser reads
NonEnglishKeys == {KeyZhName, KeyZhDesc, KeyZhEvidence, KeyZhAnalysis}

\* the key takes priority over Name as the name of a row
AheadOfName(k) ==
  ResolveName(<<Field("Name", Text("M")), Field(k, Text("Z"))>>) = Text("Z")

NamePriority == <<KeyZhName, "Name", "Node", "Title">>

\* a value that a candidate yields and that ends the search
Usable(v) == v.type # "undefined" /\ (v.type = "string" => v.text # "")

\* the value under exactly this key, Undefined when the row has no such key
ValueAt(row, k) ==
  IF \E j \in DOMAIN row : row[j].key = k
    THEN row[CHOOSE j \in DOMAIN row : row[j].key = k].value
    ELSE Undefined

\* the first usable candidate in priority order, else the first column
FirstUsable(row) ==
  LET ok == {i \in DOMAIN NamePriority : Usable(ValueAt(row, NamePriority[i]))}
  IN IF ok # {}
       THEN ValueAt(row, NamePriority[CHOOSE i \in ok : \A j \in ok : i <= j])
       ELSE IF row = <<>> THEN Undefined ELSE row[1].value

\* the name the row is ingested under; "" when the row is skipped
NameByPriority(row) ==
  LET v == FirstUsable(row)
  IN IF Usable(v) /\ v.type = "string" THEN trim(v.text) ELSE ""

C25_ExpandedAreNodes ==
  \A id \in expandedNodes : \E n \in Range(masterData.nodes) : n.id = id

\* on an imported graph, with an import in flight, a planet of that graph
\* is expanded
C25_Witness ==
  /\ lastEvent.type = "click"
  /\ masterData # DEFAULT_GRAPH_DATA
  /\ pending # <<>>
  /\ \E n \in Range(masterData.nodes) :
        n.group = "planet" /\ n.id \in expandedNodes

(***************************************************************************)
(* Properties of a search episode, checked under SpecSession.              *)
(***************************************************************************)

\* C26: query edits and category switches never change expandedNodes, and
\* once a search is over, the query cleared and the categories as they
\* were when it began, the explore-mode view (nodes and links) is the view
\* of that moment, whatever selections and edits the search saw.
C26_SearchRoundTrip ==
  /\ []((lastEvent.type = "cleared" /\ activeGroups = lastEvent.groups) =>
          visibleData = lastEvent.view)
  /\ [][(searchQuery' # searchQuery \/ activeGroups' # activeGroups) =>
          expandedNodes' = expandedNodes]_vars

\* a search is over, the categories are back after a switch, and the view
\* of before the search, with a satellite open, is shown again
C26_Witness ==
  /\ lastEvent.type = "cleared"
  /\ searchQuery = ""
  /\ activeGroups = lastEvent.groups
  /\ activeGroups # Groups
  /\ "satellite" \in activeGroups
  /\ \E n \in Range(lastEvent.view.nodes) : n.group = "satellite"
  /\ Cardinality(expandedNodes) = 2

(***************************************************************************)
(* The explore-mode view as a function of the Expansion Set, checked under *)
(* SpecExplore.                                                            *)
(***************************************************************************)
ExploreWith(exp) == exploreVisible(masterData, activeGroups, exp)

\* C27: for the graph and the categories of the state, adding an id to the
\* Expansion Set hides no node and no link of the explore-mode view, and
\* every node of the explore-mode view is in the search-mode view.
C27_ExploreMonotone ==
  LET nodes == Range(visibleData.nodes)
      links == Range(visibleData.links)
  IN /\ \A id \in Range(EngineIds) \ expandedNodes :
           /\ nodes \subseteq Range(ExploreWith(expandedNodes \cup {id}).nodes)
           /\ links \subseteq Range(ExploreWith(expandedNodes \cup {id}).links)
     /\ nodes \subseteq Range(searchVisible(masterData, activeGroups).nodes)

\* an id outside the Expansion Set would add a node and a link to a view
\* that already has a satellite, and a search would show more than the view
C27_Witness ==
  /\ searchQuery = ""
  /\ \E n \in Range(visibleData.nodes) : n.group = "satellite"
  /\ \E id \in Range(EngineIds) \ expandedNodes :
        /\ Range(ExploreWith(expandedNodes \cup {id}).nodes) #
             Range(visibleData.nodes)
        /\ Range(ExploreWith(expandedNodes \cup {id}).links) #
             Range(visibleData.links)
  /\ Range(visibleData.nodes) #
       Range(searchVisible(masterData, activeGroups).nodes)
====
